---- MODULE Spec2Model ----
(***************************************************************************)
(* pyscrew: the construction of a ScrewDataset, the stages that work on    *)
(* ScrewDataset.processed_data (logging, step unpacking, duplicate         *)
(* resolution, length normalization, format conversion) and get_data,      *)
(* which runs them in order.                                               *)
(*                                                                         *)
(* Numbers.  Every measurement held by the model is the real value times   *)
(* Unit, where Unit is a common multiple of every possible group size, so  *)
(* that the arithmetic means numpy computes are exact integers here.       *)
(* A NaN or infinite reading is the single value NonFinite.                *)
(***************************************************************************)
EXTENDS Integers, Sequences, FiniteSets, TLC

VARIABLES
    screw_runs,         \* ScrewDataset.screw_runs: the loaded runs (steps + class label)
    processed_data,     \* ScrewDataset.processed_data: channel name -> one sequence per run
    handle_duplicates,  \* HandleDuplicatesTransformer.handle_duplicates
    include_steps,      \* UnpackStepsTransformer.include_steps
    stats,              \* HandleDuplicatesTransformer._stats
    conversion_stats,   \* DatasetConversionTransformer._conversion_stats
    call,               \* the last transform call: which stage, and whether it raised
    pre_data,           \* processed_data as it was when the last transform call started
    pc,                 \* get_data: the statement it is at ("none": get_data is not running)
    pipeline,           \* process_data: the steps of the Pipeline that have not run yet
    stages,             \* get_data: the stages that have run in this invocation, in order
    labels_df,          \* ScrewDataset.labels_df: the rows of labels.csv, in file order
    json_files,         \* the raw records in the json directory, by file name
    scenario_classes,   \* ScrewDataset.scenario_classes
    screw_cycles,       \* ScrewDataset.screw_cycles
    screw_positions,    \* ScrewDataset.screw_positions
    file_names,         \* ScrewDataset.file_names
    constructing,       \* ScrewDataset.__init__: the call it is at, "done" or the exception raised
    target_length,      \* PipelineConfig.target_length
    padding_value,      \* PipelineConfig.padding_value
    padding_position,   \* PipelineConfig.padding_position
    cutoff_position,    \* PipelineConfig.cutoff_position
    converter_measurements, \* DatasetConversionTransformer.measurements (None is {})
    config_args,        \* the arguments PipelineConfig is called with
    config_made,        \* PipelineConfig.__init__: "no" (not called), "yes" or the exception
    force,              \* DataLoader.get_data: its force argument
    archive_file,       \* the file at the archive path: "absent" or the kind of its content
    temp_file,          \* the file at the .tmp path: "absent" or the kind of its content
    loader_pc,          \* DataLoader.get_data: the call it is at, "returned" or the exception
    attempt,            \* DataLoader.get_data: which of its _download_file calls is the current one
    requests,           \* the number of requests.get calls made so far
    verifications,      \* the _verify_archive calls made so far: outcome, and requests before it
    label_files,        \* generate_labels: the workpiece ids of the files still to read
    workpiece_generators, \* generate_labels: the generator of each workpiece seen
    label_rows          \* generate_labels: the rows made so far

\* the state of a get_data invocation
invocation == <<pc, pipeline, stages>>

\* the state of the construction of a ScrewDataset
construction == <<labels_df, json_files, scenario_classes, screw_cycles, screw_positions,
                  file_names, constructing>>

\* the state outside the dataset and its stages
loader == <<force, archive_file, temp_file, loader_pc, attempt, requests, verifications>>

labelling == <<label_files, workpiece_generators, label_rows>>

outside == <<config_args, config_made, loader, labelling>>

\* the length configuration
lengths == <<target_length, padding_value, padding_position, cutoff_position>>

vars == <<screw_runs, processed_data, handle_duplicates, include_steps, stats, conversion_stats,
          call, pre_data, invocation, construction, lengths, converter_measurements, outside>>

----------------------------------------------------------------------------
(* Bounds of the model *)

MaxRuns == 2
MaxPoints == 3

----------------------------------------------------------------------------
(* Generic helpers *)

Range(s) == {s[i] : i \in DOMAIN s}

Max2(a, b) == IF a >= b THEN a ELSE b

RECURSIVE Gcd(_, _)
Gcd(a, b) == IF b = 0 THEN a ELSE Gcd(b, a % b)

RECURSIVE LcmUpTo(_)
LcmUpTo(n) == IF n <= 1 THEN 1 ELSE LET l == LcmUpTo(n - 1) IN (l * n) \div Gcd(l, n)

Unit == LcmUpTo(Max2(MaxPoints, 2))

Num(v) == v * Unit

NonFinite == 0 - 1

RECURSIVE SumSeq(_)
SumSeq(s) == IF s = <<>> THEN 0 ELSE Head(s) + SumSeq(Tail(s))

Reverse(s) == [i \in 1..Len(s) |-> s[Len(s) + 1 - i]]

\* the increasing sequence of the members of a finite set of integers
RECURSIVE Sorted(_)
Sorted(S) ==
    IF S = {} THEN <<>>
    ELSE LET m == CHOOSE x \in S : \A y \in S : x <= y IN <<m>> \o Sorted(S \ {m})

\* the elements of s at the indices in keep, in index order (numpy boolean-mask indexing)
Masked(s, keep) == LET ix == Sorted(keep) IN [j \in 1..Len(ix) |-> s[ix[j]]]

----------------------------------------------------------------------------
(* Field names *)

TIME == "time values"
TORQUE == "torque values"
ANGLE == "angle values"
GRADIENT == "gradient values"
STEP == "step values"
CLASS == "class values"

Measured == {TIME, TORQUE, ANGLE, GRADIENT}

----------------------------------------------------------------------------
(* Record model: ScrewStep, ScrewRun, and the datasets the model loads *)

\* the graph of the step's raw record held the key of the measurement; without
\* it the step holds np.array(None), whose tolist() is None and not a list
HasValues(step, measurement_name) == measurement_name \notin step.absent

\* ScrewStep.get_values
get_values(step, measurement_name) ==
    CASE measurement_name = TIME -> step.time
      [] measurement_name = TORQUE -> step.torque
      [] measurement_name = ANGLE -> step.angle
      [] measurement_name = GRADIENT -> step.gradient

\* ScrewStep.__len__
StepLen(step) == Len(step.time)

\* ScrewRun.__len__
RunLen(run) == SumSeq([i \in 1..Len(run.steps) |-> StepLen(run.steps[i])])

\* the readings (torque, angle, gradient) a raw sample may carry
Readings == {<<0, 1, 2>>, <<1, 2, 0>>}

\* the time values a raw sample may carry
Times == {0, 1}

\* ScrewStep.__init__ on a graph block whose i-th sample is pts[i] = <<time, reading>>
ScrewStep(pts) ==
    [time |-> [i \in 1..Len(pts) |-> Num(pts[i][1])],
     torque |-> [i \in 1..Len(pts) |-> Num(pts[i][2][1])],
     angle |-> [i \in 1..Len(pts) |-> Num(pts[i][2][2])],
     gradient |-> [i \in 1..Len(pts) |-> Num(pts[i][2][3])],
     absent |-> {}]

\* raw steps of n samples, time non-decreasing within the step
StepsOfLen(n) ==
    {ScrewStep(pts) : pts \in {q \in [1..n -> Times \X Readings] :
                                  \A i \in 1..(n - 1) : q[i][1] <= q[i + 1][1]}}

\* lists of steps, each with at least one sample, holding exactly b samples together
RECURSIVE StepLists(_)
StepLists(b) ==
    IF b = 0 THEN {<<>>}
    ELSE UNION {{<<s>> \o rest : s \in StepsOfLen(n), rest \in StepLists(b - n)} : n \in 1..b}

PointsOf(steps) == SumSeq([i \in 1..Len(steps) |-> StepLen(steps[i])])

\* lists of k runs (each a list of steps) holding at most b samples together
RECURSIVE RunLists(_, _)
RunLists(k, b) ==
    IF k = 0 THEN {<<>>}
    ELSE UNION {{<<r>> \o rest : r \in StepLists(n), rest \in RunLists(k - 1, b - n)} : n \in 0..b}

\* ScrewRun.__init__: the steps of the raw record and the class of the label table
ScrewRun(steps, class_label) == [steps |-> steps, class_label |-> class_label]

\* the loaded datasets whose records are well formed: k runs hold at most
\* MaxPoints + 1 - k samples together; run r is of class r mod 2
CleanDatasets ==
    UNION {{[r \in 1..k |-> ScrewRun(rl[r], r % 2)] : rl \in RunLists(k, MaxPoints + 1 - k)} :
           k \in 0..MaxRuns}

\* the datasets of MaxRuns runs in which every run is one step of two samples
\* recorded at the same time value
PairedDatasets ==
    LET pairs == {st \in StepsOfLen(2) : st.time[1] = 0 /\ st.time[2] = 0}
    IN {[r \in 1..MaxRuns |-> ScrewRun(<<f[r]>>, r % 2)] : f \in [1..MaxRuns -> pairs]}

\* the raw record of the last run has a NaN or infinite last torque reading
WithNonFinite(ds) ==
    LET r == Len(ds)
        st == ds[r].steps[1]
    IN [ds EXCEPT ![r].steps[1].torque = [st.torque EXCEPT ![Len(st.torque)] = NonFinite]]

\* the raw record of the last run has one gradient reading less than time values
WithShortChannel(ds) ==
    LET r == Len(ds)
        st == ds[r].steps[1]
    IN [ds EXCEPT ![r].steps[1].gradient = SubSeq(st.gradient, 1, Len(st.gradient) - 1)]

\* the graph of the last run's raw record has no gradient key
WithAbsentChannel(ds) ==
    LET r == Len(ds)
    IN [ds EXCEPT ![r].steps[1].gradient = <<>>, ![r].steps[1].absent = {GRADIENT}]

\* the datasets whose runs are single steps and whose last run has samples
Spoilable ==
    {ds \in CleanDatasets \cup PairedDatasets :
        /\ ds # <<>>
        /\ \A r \in 1..Len(ds) : Len(ds[r].steps) <= 1
        /\ Len(ds[Len(ds)].steps) = 1}

Datasets ==
    CleanDatasets
    \cup PairedDatasets
    \cup {WithNonFinite(ds) : ds \in Spoilable}
    \cup {WithShortChannel(ds) : ds \in Spoilable}
    \cup {WithAbsentChannel(ds) : ds \in Spoilable}

Methods == {"first", "last", "mean"}

ZeroStats ==
    [total_series |-> 0, total_points |-> 0, total_removed |-> 0,
     total_true_duplicates |-> 0, total_value_differences |-> 0]

----------------------------------------------------------------------------
(* UnpackStepsTransformer *)

\* the measurements in the order transform goes over them
measurements == <<"torque values", "angle values", "gradient values", "time values">>

Position(m) == CHOOSE i \in 1..Len(measurements) : measurements[i] = m

\* the loop body raises TypeError on the step: len(None) or extend(None)
StepRaises(step) == \E m \in Measured : ~HasValues(step, m)

\* the loop body extends measurement m with the step's values before it ends
Extends(step, m) ==
    /\ HasValues(step, TIME)
    /\ \A k \in 1..Position(m) : HasValues(step, measurements[k])

RunRaises(run) == \E i \in 1..Len(run.steps) : StepRaises(run.steps[i])

\* transform raises before it returns
UnpackRaises(runs) == \E r \in 1..Len(runs) : RunRaises(runs[r])

\* a slip: every step's values are put in front of those already collected
RECURSIVE ExtendAllInFront(_, _)
ExtendAllInFront(steps, measurement) ==
    IF steps = <<>> THEN <<>>
    ELSE (IF StepRaises(Head(steps)) THEN <<>> ELSE ExtendAllInFront(Tail(steps), measurement))
         \o (IF Extends(Head(steps), measurement) THEN get_values(Head(steps), measurement) ELSE <<>>)

\* the values of one measurement over the steps of a run, in step order, up to
\* the step on which the loop raises
RECURSIVE ExtendAll(_, _)
ExtendAll(steps, measurement) ==
    IF steps = <<>> THEN <<>>
    ELSE (IF Extends(Head(steps), measurement) THEN get_values(Head(steps), measurement) ELSE <<>>)
         \o (IF StepRaises(Head(steps)) THEN <<>> ELSE ExtendAll(Tail(steps), measurement))

\* [step_idx] * step_length for every step, step_idx counted from 0
RECURSIVE StepIndicators(_, _)
StepIndicators(steps, step_idx) ==
    IF steps = <<>> \/ StepRaises(Head(steps)) THEN <<>>
    ELSE [i \in 1..StepLen(Head(steps)) |-> Num(step_idx)]
         \o StepIndicators(Tail(steps), step_idx + 1)

\* a slip: only the runs that have steps get a list
UnpackRunsWithSteps(runs, inc) ==
    LET with == Masked(runs, {r \in 1..Len(runs) : runs[r].steps # <<>>}) IN
    [m \in (IF inc THEN Measured \cup {STEP} ELSE Measured) |->
        [r \in 1..Len(with) |->
            IF m = STEP THEN StepIndicators(with[r].steps, 0)
            ELSE ExtendAll(with[r].steps, m)]]

\* a slip: the loop over the steps always reads the steps of the first run
UnpackFirstRunOnly(runs, inc) ==
    [m \in (IF inc THEN Measured \cup {STEP} ELSE Measured) |->
        [r \in 1..Len(runs) |->
            IF m = STEP THEN StepIndicators(runs[1].steps, 0)
            ELSE ExtendAll(runs[1].steps, m)]]

\* processed_data when transform ends: one list per run (pre-allocated), filled
\* run by run until transform returns or a step raises
UnpackStepsTransformer_transform(runs, inc) ==
    [m \in (IF inc THEN Measured \cup {STEP} ELSE Measured) |->
        [r \in 1..Len(runs) |->
            IF \E q \in 1..(r - 1) : RunRaises(runs[q]) THEN <<>>
            ELSE IF m = STEP THEN StepIndicators(runs[r].steps, 0)
            ELSE ExtendAll(runs[r].steps, m)]]

Unpack ==
    /\ call.op # "convert"
    /\ pre_data' = processed_data
    /\ processed_data' = UnpackStepsTransformer_transform(screw_runs, include_steps)
    /\ call' = [op |-> "unpack", raised |-> UnpackRaises(screw_runs)]
    /\ UNCHANGED <<screw_runs, handle_duplicates, include_steps, stats, conversion_stats,
                   invocation, construction, lengths, converter_measurements, outside>>

----------------------------------------------------------------------------
(* HandleDuplicatesTransformer *)

\* np.isfinite
IsFinite(x) == x # NonFinite

\* a slip: only the lengths are checked, not the values
ValidateLengthsOnly(time, torque, angle, gradient, steps) ==
    LET arrays == <<time, torque, angle, gradient, steps>> IN
    \A a \in 1..Len(arrays) : Len(arrays[a]) = Len(time)

\* _validate_arrays: TRUE when it returns, FALSE when it raises DuplicateProcessingError
ValidateArrays(time, torque, angle, gradient, steps) ==
    LET arrays == <<time, torque, angle, gradient, steps>> IN
    /\ \A a \in 1..Len(arrays) : Len(arrays[a]) = Len(time)
    /\ \A a \in 1..Len(arrays) : \A i \in 1..Len(arrays[a]) : IsFinite(arrays[a][i])

\* a slip: the distinct values are returned in the order of their first occurrence
UniqueTimesUnsorted(time) ==
    LET first == {CHOOSE i \in 1..Len(time) : time[i] = t /\ \A j \in 1..Len(time) : time[j] = t => i <= j :
                    t \in Range(time)}
    IN Masked(time, first)

\* np.unique(time): the distinct values in increasing order
UniqueTimes(time) == Sorted(Range(time))

\* a slip: the index of the last occurrence of each value is returned
UniqueIndicesOfLast(time) ==
    {CHOOSE i \in 1..Len(time) : time[i] = t /\ \A j \in 1..Len(time) : time[j] = t => j <= i :
        t \in Range(time)}

\* np.unique(time, return_index=True): the index of the first occurrence of each value
UniqueIndices(time) ==
    {CHOOSE i \in 1..Len(time) : time[i] = t /\ \A j \in 1..Len(time) : time[j] = t => i <= j :
        t \in Range(time)}

\* a slip: "last" uses the indices into the reversed series without converting them
KeepMaskUnconverted(method, time) ==
    IF method = "first" THEN UniqueIndices(time) ELSE UniqueIndices(Reverse(time))

\* the indices where mask is True, for the "first" and the "last" method
KeepMask(method, time) ==
    IF method = "first" THEN UniqueIndices(time)
    ELSE {Len(time) + 1 - i : i \in UniqueIndices(Reverse(time))}

\* np.where(...)[0] is not empty, so that indexing it raises no IndexError
HasKept(method, mask, dup_idx) ==
    IF method = "first" THEN \E k \in mask : k <= dup_idx ELSE \E k \in mask : k >= dup_idx

\* kept_idx: the last kept index up to dup_idx ("first"), the first one from dup_idx on ("last")
KeptIndex(method, mask, dup_idx) ==
    IF method = "first"
    THEN CHOOSE k \in mask : k <= dup_idx /\ \A j \in mask : j <= dup_idx => j <= k
    ELSE CHOOSE k \in mask : k >= dup_idx /\ \A j \in mask : j >= dup_idx => k <= j

\* "Check for true duplicates": the removed point against the kept point
MatchesKept(method, mask, dup_idx, torque, angle, gradient) ==
    LET kept_idx == KeptIndex(method, mask, dup_idx) IN
    /\ torque[kept_idx] = torque[dup_idx]
    /\ angle[kept_idx] = angle[dup_idx]
    /\ gradient[kept_idx] = gradient[dup_idx]

\* a slip: the true duplicates are left out of total_removed
FirstLastStatsDifferencesOnly(method, st, mask, time, torque, angle, gradient) ==
    LET duplicate_indices == (1..Len(time)) \ mask
        series_true_duplicates ==
            Cardinality({d \in duplicate_indices : MatchesKept(method, mask, d, torque, angle, gradient)})
        series_value_differences == Cardinality(duplicate_indices) - series_true_duplicates
    IN [st EXCEPT !.total_true_duplicates = @ + series_true_duplicates,
                  !.total_value_differences = @ + series_value_differences,
                  !.total_removed = @ + series_value_differences]

\* the statistics after the "first"/"last" branch has gone over one series
FirstLastStats(method, st, mask, time, torque, angle, gradient) ==
    LET duplicate_indices == (1..Len(time)) \ mask
        series_true_duplicates ==
            Cardinality({d \in duplicate_indices : MatchesKept(method, mask, d, torque, angle, gradient)})
        series_value_differences == Cardinality(duplicate_indices) - series_true_duplicates
    IN [st EXCEPT !.total_true_duplicates = @ + series_true_duplicates,
                  !.total_value_differences = @ + series_value_differences,
                  !.total_removed = @ + Cardinality(duplicate_indices)]

\* np.where(inverse_indices == i): the indices whose time is the i-th unique time
GroupOf(time, t) == {i \in 1..Len(time) : time[i] = t}

\* a slip: the sum of the group is divided by the length of the whole series
MeanOverSeries(values, idx) == SumSeq(Masked(values, idx)) \div Len(values)

\* np.mean over the values at the indices idx
Mean(values, idx) == SumSeq(Masked(values, idx)) \div Cardinality(idx)

\* all_match: one distinct value per channel over the group
AllMatch(idx, torque, angle, gradient) ==
    /\ Cardinality({torque[i] : i \in idx}) = 1
    /\ Cardinality({angle[i] : i \in idx}) = 1
    /\ Cardinality({gradient[i] : i \in idx}) = 1

\* the statistics after the "mean" branch has gone over the groups of one series
RECURSIVE MeanStats(_, _, _, _, _, _)
MeanStats(st, unique_times, time, torque, angle, gradient) ==
    IF unique_times = <<>> THEN st
    ELSE LET idx == GroupOf(time, Head(unique_times))
             duplicates_removed == Cardinality(idx) - 1
             st1 == IF Cardinality(idx) > 1
                    THEN IF AllMatch(idx, torque, angle, gradient)
                         THEN [st EXCEPT !.total_removed = @ + duplicates_removed,
                                         !.total_true_duplicates = @ + duplicates_removed]
                         ELSE [st EXCEPT !.total_removed = @ + duplicates_removed,
                                         !.total_value_differences = @ + duplicates_removed]
                    ELSE st
         IN MeanStats(st1, Tail(unique_times), time, torque, angle, gradient)

\* _process_series: whether it raised, the statistics it leaves, the series it returns
ProcessSeries(method, st, time, torque, angle, gradient, steps) ==
    IF ~ValidateArrays(time, torque, angle, gradient, steps)
    THEN [raised |-> TRUE, stats |-> st, result |-> <<>>]
    ELSE IF method = "mean"
    THEN LET unique_times == UniqueTimes(time)
             means(values) == [i \in 1..Len(unique_times) |->
                                  Mean(values, GroupOf(time, unique_times[i]))]
         IN [raised |-> FALSE,
             stats |-> MeanStats(st, unique_times, time, torque, angle, gradient),
             result |-> [f \in Measured \cup {STEP} |->
                           CASE f = TIME -> unique_times
                             [] f = TORQUE -> means(torque)
                             [] f = ANGLE -> means(angle)
                             [] f = GRADIENT -> means(gradient)
                             [] f = STEP -> means(steps)]]
    ELSE LET mask == KeepMask(method, time) IN
         IF \E d \in (1..Len(time)) \ mask : ~HasKept(method, mask, d)
         THEN [raised |-> TRUE, stats |-> st, result |-> <<>>]
         ELSE
            [raised |-> FALSE,
             stats |-> FirstLastStats(method, st, mask, time, torque, angle, gradient),
             result |-> [f \in Measured \cup {STEP} |->
                           CASE f = TIME -> Masked(time, mask)
                             [] f = TORQUE -> Masked(torque, mask)
                             [] f = ANGLE -> Masked(angle, mask)
                             [] f = GRADIENT -> Masked(gradient, mask)
                             [] f = STEP -> Masked(steps, mask)]]

\* the loop of transform over the runs, from run idx on
RECURSIVE ProcessRuns(_, _, _, _, _)
ProcessRuns(method, data, idx, st, out) ==
    IF idx > st.total_series THEN [raised |-> FALSE, stats |-> st, out |-> out]
    ELSE IF ~(Measured \subseteq DOMAIN data) THEN [raised |-> TRUE, stats |-> st, out |-> out]
    ELSE LET time == data[TIME][idx]
             steps == IF STEP \in DOMAIN data THEN data[STEP][idx] ELSE <<>>
             st1 == [st EXCEPT !.total_points = @ + Len(time)]
             res == ProcessSeries(method, st1, time, data[TORQUE][idx], data[ANGLE][idx],
                                  data[GRADIENT][idx], steps)
         IN IF res.raised THEN [raised |-> TRUE, stats |-> res.stats, out |-> out]
            ELSE ProcessRuns(method, data, idx + 1, res.stats,
                             [f \in DOMAIN out |->
                                 IF f = CLASS THEN out[f] ELSE Append(out[f], res.result[f])])

\* transform: whether it raised DuplicateProcessingError, _stats, the new processed_data
HandleDuplicatesTransformer_transform(method, data) ==
    LET fields == Measured \cup ({STEP, CLASS} \cap DOMAIN data)
        out == [f \in fields |-> IF f = CLASS THEN data[CLASS] ELSE <<>>]
    IN IF TIME \notin DOMAIN data
       THEN [raised |-> TRUE, stats |-> ZeroStats, out |-> out]
       ELSE ProcessRuns(method, data, 1,
                        [ZeroStats EXCEPT !.total_series = Len(data[TIME])], out)

HandleDuplicates ==
    LET res == HandleDuplicatesTransformer_transform(handle_duplicates, processed_data) IN
    /\ call.op # "convert"
    /\ pre_data' = processed_data
    /\ stats' = res.stats
    /\ processed_data' = IF res.raised THEN processed_data ELSE res.out
    /\ call' = [op |-> "dedupe", raised |-> res.raised]
    /\ UNCHANGED <<screw_runs, handle_duplicates, include_steps, conversion_stats, invocation, construction, lengths, converter_measurements, outside>>

----------------------------------------------------------------------------
(* DatasetConversionTransformer *)

\* PipelineOptions.OUTPUT_FORMATS
OUTPUT_FORMATS == {"numpy", "dataframe", "tensor", "list"}

\* the measurements argument: None (here {}), a channel of the dataset, or the
\* name PipelineOptions.MEASUREMENTS gives the torque channel
Selections == {{}, {"torque values"}, {"torque"}}

\* the order in which a processed_data without time values lists its keys
KeyOrder == <<"torque values", "angle values", "gradient values", "step values", "class values">>

\* np.array of a list of per-run lists: two-dimensional when the runs have one
\* length, else an array of list objects
NpArray(key, value) ==
    IF key = CLASS \/ value = <<>> THEN [shape |-> <<Len(value)>>, items |-> value]
    ELSE IF \A i \in 1..Len(value) : Len(value[i]) = Len(value[1])
    THEN [shape |-> <<Len(value), Len(value[1])>>, items |-> value]
    ELSE [shape |-> <<Len(value)>>, items |-> value]

\* np.array raises ValueError (inhomogeneous shape) in the builds that do not
\* fall back to an array of objects
Inhomogeneous(key, value) ==
    key # CLASS /\ \E i, j \in 1..Len(value) : Len(value[i]) # Len(value[j])

\* the keys whose series make the columns of the frames
SeriesKeys(data) == DOMAIN data \ {CLASS}

\* next(iter(data.values())) raises StopIteration
NoSeries(data) ==
    TIME \notin DOMAIN data /\ \A k \in 1..Len(KeyOrder) : KeyOrder[k] \notin DOMAIN data

\* num_series
NumSeries(data) ==
    IF TIME \in DOMAIN data THEN Len(data[TIME])
    ELSE LET k == CHOOSE k \in 1..Len(KeyOrder) :
                     /\ KeyOrder[k] \in DOMAIN data
                     /\ \A j \in 1..(k - 1) : KeyOrder[j] \notin DOMAIN data
         IN Len(data[KeyOrder[k]])

\* series_data of series i (counted from 1)
SeriesData(data, i) ==
    [key \in SeriesKeys(data) |-> IF i <= Len(data[key]) THEN data[key][i] ELSE <<>>]

\* pd.DataFrame(series_data) raises ValueError: the arrays differ in length
FrameRaises(series_data) ==
    \E k1, k2 \in DOMAIN series_data : Len(series_data[k1]) # Len(series_data[k2])

\* a slip: the frame of a series has one row
OneRowFrame(data, i) ==
    LET series_data == SeriesData(data, i)
        labelled == CLASS \in DOMAIN data /\ i <= Len(data[CLASS])
        columns == DOMAIN series_data \cup (IF labelled THEN {"class"} ELSE {}) \cup {"series"}
    IN [j \in 1..1 |->
           [c \in columns |->
               CASE c = "class" -> data[CLASS][i]
                 [] c = "series" -> i - 1
                 [] OTHER -> IF series_data[c] = <<>> THEN 0 ELSE series_data[c][1]]]

\* df of series i: one row per point, the class label and the series index
\* (counted from 0) on every row
Frame(data, i) ==
    LET series_data == SeriesData(data, i)
        n == IF DOMAIN series_data = {} THEN 0
             ELSE Len(series_data[CHOOSE k \in DOMAIN series_data : TRUE])
        labelled == CLASS \in DOMAIN data /\ i <= Len(data[CLASS])
        columns == DOMAIN series_data \cup (IF labelled THEN {"class"} ELSE {}) \cup {"series"}
    IN [j \in 1..n |->
           [c \in columns |->
               CASE c = "class" -> data[CLASS][i]
                 [] c = "series" -> i - 1
                 [] OTHER -> series_data[c][j]]]

\* pd.concat(dfs, ignore_index=True) of the frames of series i..n
RECURSIVE Concat(_, _, _)
Concat(data, i, n) == IF i > n THEN <<>> ELSE Frame(data, i) \o Concat(data, i + 1, n)

\* _convert_to_format; strict tells whether np.array refuses ragged input
ConvertToFormat(data, format_name, strict) ==
    CASE format_name = "list" -> [raised |-> FALSE, out |-> data]
      [] format_name = "numpy" ->
            IF data = <<>> \/ (strict /\ \E key \in DOMAIN data : Inhomogeneous(key, data[key]))
            THEN [raised |-> TRUE, out |-> data]
            ELSE [raised |-> FALSE, out |-> [key \in DOMAIN data |-> NpArray(key, data[key])]]
      [] format_name = "dataframe" ->
            IF data = <<>> \/ NoSeries(data)
               \/ \E i \in 1..NumSeries(data) : FrameRaises(SeriesData(data, i))
            THEN [raised |-> TRUE, out |-> data]
            ELSE [raised |-> FALSE, out |-> [rows |-> Concat(data, 1, NumSeries(data))]]
      [] OTHER -> [raised |-> TRUE, out |-> data]

\* transform: whether it raised ConversionError, _conversion_stats, the new processed_data
DatasetConversionTransformer_transform(data, output_format, selection, strict, cstats) ==
    IF selection # {} /\ data = <<>>
    THEN [raised |-> TRUE, stats |-> cstats, out |-> data]
    ELSE LET fields_to_keep == (selection \cup {CLASS}) \cap DOMAIN data
             filtered == IF selection # {} THEN [k \in fields_to_keep |-> data[k]] ELSE data
             points == IF TIME \in DOMAIN filtered
                       THEN SumSeq([i \in 1..Len(filtered[TIME]) |-> Len(filtered[TIME][i])])
                       ELSE 0
             res == ConvertToFormat(filtered, output_format, strict)
         IN [raised |-> res.raised,
             stats |-> [cstats EXCEPT !.measurements_included = Cardinality(DOMAIN filtered),
                                      !.data_points_processed = @ + points],
             out |-> res.out]

\* a DatasetConversionTransformer(output_format, measurements) is built; its
\* transform is the last call made on the dataset
Convert ==
    /\ call.op # "convert"
    /\ \E output_format \in OUTPUT_FORMATS, selection \in Selections :
       \E strict \in (IF output_format = "numpy" THEN BOOLEAN ELSE {FALSE}) :
          LET res == DatasetConversionTransformer_transform(
                         processed_data, output_format, selection, strict, conversion_stats) IN
          /\ pre_data' = processed_data
          /\ converter_measurements' = selection
          /\ conversion_stats' = [res.stats EXCEPT !.format = output_format]
          /\ processed_data' = IF res.raised THEN processed_data ELSE res.out
          /\ call' = [op |-> "convert", raised |-> res.raised]
    /\ UNCHANGED <<screw_runs, handle_duplicates, include_steps, stats, invocation, construction,
                   lengths, outside>>

\* fit raises ValueError: the format is not one of list, numpy, dataframe
DatasetConversionTransformer_fit_raises(output_format) ==
    output_format \notin {"list", "numpy", "dataframe"}

\* the conversion stage of a pipeline built from a valid PipelineConfig:
\* DatasetConversionTransformer(config.output_format).fit(dataset), then transform
ConvertConfigured ==
    /\ config_made = "yes"
    /\ call.op # "convert"
    /\ \E strict \in (IF config_args.output_format = "numpy" THEN BOOLEAN ELSE {FALSE}) :
          LET res == DatasetConversionTransformer_transform(
                         processed_data, config_args.output_format, {}, strict,
                         conversion_stats) IN
          /\ pre_data' = processed_data
          /\ converter_measurements' = {}
          /\ IF DatasetConversionTransformer_fit_raises(config_args.output_format)
             THEN /\ conversion_stats' = [conversion_stats EXCEPT
                                             !.format = config_args.output_format]
                  /\ processed_data' = processed_data
                  /\ call' = [op |-> "convert", raised |-> TRUE]
             ELSE /\ conversion_stats' = [res.stats EXCEPT !.format = config_args.output_format]
                  /\ processed_data' = IF res.raised THEN processed_data ELSE res.out
                  /\ call' = [op |-> "convert", raised |-> res.raised]
    /\ UNCHANGED <<screw_runs, handle_duplicates, include_steps, stats, invocation, construction,
                   lengths, outside>>

\* transform is called once more on the transformer that made the last call; the
\* dataset still holds lists (the format is "list", or the last call raised)
ConvertAgain ==
    /\ call.op = "convert"
    /\ call.raised \/ conversion_stats.format = "list"
    /\ conversion_stats.data_points_processed <= MaxPoints + 1
    /\ \E strict \in (IF conversion_stats.format = "numpy" THEN BOOLEAN ELSE {FALSE}) :
          LET res == DatasetConversionTransformer_transform(
                         processed_data, conversion_stats.format, converter_measurements,
                         strict, conversion_stats) IN
          /\ pre_data' = processed_data
          /\ conversion_stats' = res.stats
          /\ processed_data' = IF res.raised THEN processed_data ELSE res.out
          /\ call' = [op |-> "convert", raised |-> res.raised]
    /\ UNCHANGED <<screw_runs, handle_duplicates, include_steps, stats, invocation, construction,
                   lengths, converter_measurements, outside>>

----------------------------------------------------------------------------
(* PipelineLoggingTransformer, and the LoggingTransformer of process_data *)

\* fit raises TypeError: ScrewRun.get_values extends a list with the None that a
\* step holds for a measurement its raw record lacked
LoggingRaises(runs) ==
    \E r \in 1..Len(runs) : \E i \in 1..Len(runs[r].steps) :
        \E m \in Measured : ~HasValues(runs[r].steps[i], m)

\* a slip: transform returns the dataset without its last run
DatasetWithoutLastRun(runs) == SubSeq(runs, 1, Len(runs) - 1)

\* transform: the dataset is returned as it is
PipelineLoggingTransformer_transform(runs) == runs

\* fit and transform are called on the dataset
Log ==
    /\ call.op # "convert"
    /\ pre_data' = processed_data
    /\ call' = [op |-> "log", raised |-> LoggingRaises(screw_runs)]
    /\ screw_runs' = IF LoggingRaises(screw_runs) THEN screw_runs
                     ELSE PipelineLoggingTransformer_transform(screw_runs)
    /\ UNCHANGED <<processed_data, handle_duplicates, include_steps, stats, conversion_stats,
                   invocation, construction, lengths, converter_measurements, outside>>

----------------------------------------------------------------------------
(* get_data: one invocation of the pipeline.  load_data, the validate_       *)
(* functions and convert_data are called by get_data; each either returns or *)
(* raises.                                                                   *)

\* a slip: the initial transformer is listed a second time after the output logger
PipelineWithSecondUnpack ==
    <<"input_logger", "initial_transformer", "output_logger", "initial_transformer">>

\* create_processing_pipeline: the names of the steps, in order
create_processing_pipeline == <<"input_logger", "initial_transformer", "output_logger">>

\* a statement of get_data raises: the exception leaves get_data
Raise ==
    /\ pc \in {"load_data", "validate_loaded_data", "from_config", "validate_processed_data",
               "convert_data", "validate_converted_data"}
    /\ pc' = "raised"
    /\ UNCHANGED <<screw_runs, processed_data, handle_duplicates, include_steps, stats,
                   conversion_stats, call, pre_data, pipeline, stages>>
    /\ UNCHANGED <<construction, lengths, converter_measurements, outside>>

\* load_data and validate_loaded_data return
LoadData ==
    /\ pc \in {"load_data", "validate_loaded_data"}
    /\ pc' = IF pc = "load_data" THEN "validate_loaded_data" ELSE "from_config"
    /\ UNCHANGED <<screw_runs, processed_data, handle_duplicates, include_steps, stats,
                   conversion_stats, call, pre_data, pipeline, stages>>
    /\ UNCHANGED <<construction, lengths, converter_measurements, outside>>

\* process_data: ScrewDataset.from_config returns the dataset of the runs read,
\* and the pipeline is created
FromConfig ==
    /\ pc = "from_config"
    /\ \E ds \in Datasets : screw_runs' = ds
    /\ processed_data' = <<>>
    /\ call' = [op |-> "load", raised |-> FALSE]
    /\ stages' = Append(stages, "Loaded")
    /\ pipeline' = create_processing_pipeline
    /\ pc' = "fit_transform"
    /\ UNCHANGED <<handle_duplicates, include_steps, stats, conversion_stats, pre_data>>
    /\ UNCHANGED <<construction, lengths, converter_measurements, outside>>

\* Pipeline.fit_transform runs its next step: a LoggingTransformer fits and
\* returns the dataset as it is, the InitialTransformer unpacks the steps
FitTransform ==
    /\ pc = "fit_transform"
    /\ pipeline # <<>>
    /\ IF Head(pipeline) = "initial_transformer"
       THEN /\ pre_data' = processed_data
            /\ processed_data' = UnpackStepsTransformer_transform(screw_runs, include_steps)
            /\ call' = [op |-> "unpack", raised |-> UnpackRaises(screw_runs)]
            /\ stages' = IF UnpackRaises(screw_runs) THEN stages ELSE Append(stages, "Unpacked")
            /\ pc' = IF UnpackRaises(screw_runs) THEN "raised" ELSE pc
            /\ UNCHANGED screw_runs
       ELSE /\ pc' = IF LoggingRaises(screw_runs) THEN "raised" ELSE pc
            /\ screw_runs' = IF LoggingRaises(screw_runs) THEN screw_runs
                             ELSE PipelineLoggingTransformer_transform(screw_runs)
            /\ UNCHANGED <<pre_data, processed_data, call, stages>>
    /\ pipeline' = Tail(pipeline)
    /\ UNCHANGED <<handle_duplicates, include_steps, stats, conversion_stats>>
    /\ UNCHANGED <<construction, lengths, converter_measurements, outside>>

\* process_data returns processed_data to get_data
ProcessDataReturns ==
    /\ pc = "fit_transform"
    /\ pipeline = <<>>
    /\ pc' = "validate_processed_data"
    /\ UNCHANGED <<screw_runs, processed_data, handle_duplicates, include_steps, stats,
                   conversion_stats, call, pre_data, pipeline, stages>>
    /\ UNCHANGED <<construction, lengths, converter_measurements, outside>>

\* validate_processed_data returns
ValidateProcessed ==
    /\ pc = "validate_processed_data"
    /\ pc' = "convert_data"
    /\ UNCHANGED <<screw_runs, processed_data, handle_duplicates, include_steps, stats,
                   conversion_stats, call, pre_data, pipeline, stages>>
    /\ UNCHANGED <<construction, lengths, converter_measurements, outside>>

\* convert_data returns the data in the output type
ConvertData ==
    /\ pc = "convert_data"
    /\ stages' = Append(stages, "Converted")
    /\ pc' = "validate_converted_data"
    /\ UNCHANGED <<screw_runs, processed_data, handle_duplicates, include_steps, stats,
                   conversion_stats, call, pre_data, pipeline>>
    /\ UNCHANGED <<construction, lengths, converter_measurements, outside>>

\* validate_converted_data returns, and get_data returns the data
Return ==
    /\ pc = "validate_converted_data"
    /\ pc' = "returned"
    /\ UNCHANGED <<screw_runs, processed_data, handle_duplicates, include_steps, stats,
                   conversion_stats, call, pre_data, pipeline, stages>>
    /\ UNCHANGED <<construction, lengths, converter_measurements, outside>>

----------------------------------------------------------------------------
(* ScrewDataset.__init__: _filter_labels, then _load_runs.  An optional list *)
(* argument is a record: given tells whether a list was passed, items holds  *)
(* the members of the list.                                                  *)

\* ScrewDataset.POSITION_MAP
POSITION_MAP == [left |-> 0, right |-> 1, both |-> "None"]

\* the file name of the i-th row of labels.csv
FileName(i) == ToString(i) \o ".json"

\* Path.stem of a file name of labels.csv
Stem(file_name) == ToString(CHOOSE i \in 1..(MaxRuns + 1) : FileName(i) = file_name)

\* the code and the result labels.csv holds for a run
LabelCode == "dmc"
LabelResult == "OK"

\* the label tables _load_labels may return: up to MaxRuns rows, indexed by file name
LabelTables ==
    UNION {{[i \in 1..n |-> [file_name |-> FileName(i), class_label |-> t[i][1],
                             cycle_number |-> t[i][2], workpiece_location |-> t[i][3],
                             data_matrix_code |-> LabelCode, result_value |-> LabelResult]] :
            t \in [1..n -> {0, 1} \X {1, 2} \X {0, 1}]} : n \in 0..MaxRuns}

\* the raw records a file of the json directory may hold
RawRecords ==
    {[dmc |-> LabelCode, result |-> LabelResult],
     [dmc |-> "other", result |-> LabelResult],
     [dmc |-> LabelCode, result |-> "NOK"]}

\* the json directories: any of the files of the label table may be missing
JsonDirectories(df) ==
    UNION {[D -> RawRecords] : D \in SUBSET {df[i].file_name : i \in DOMAIN df}}

\* the values the caller may pass for scenario_classes, screw_cycles, screw_positions
ClassFilters ==
    {[given |-> FALSE, items |-> {}], [given |-> TRUE, items |-> {}],
     [given |-> TRUE, items |-> {0}], [given |-> TRUE, items |-> {0, 1}]}
CycleFilters ==
    {[given |-> FALSE, items |-> {}], [given |-> TRUE, items |-> {}],
     [given |-> TRUE, items |-> {1}]}
PositionFilters == {"None", "left", "right", "both", "middle"}

\* _filter_labels raises ValueError: the position is not a key of POSITION_MAP
FilterRaises(positions) == positions # "None" /\ positions \notin DOMAIN POSITION_MAP

\* _filter_labels: the file names of the rows the mask keeps, in table order
ScrewDataset_filter_labels(df, classes, cycles, positions) ==
    LET sc == IF classes.given /\ classes.items # {} THEN classes.items
              ELSE {df[i].class_label : i \in DOMAIN df}
        cy == IF cycles.given /\ cycles.items # {} THEN cycles.items
              ELSE {df[i].cycle_number : i \in DOMAIN df}
        mask(row) ==
            /\ row.class_label \in sc
            /\ row.cycle_number \in cy
            /\ (positions \notin {"None", "both"}
                   => row.workpiece_location = POSITION_MAP[positions])
        kept == SelectSeq(df, mask)
    IN [i \in 1..Len(kept) |-> kept[i].file_name]

\* _get_run_label_data: labels_df.loc[file_name]
get_run_label_data(df, file_name) == df[CHOOSE i \in DOMAIN df : df[i].file_name = file_name]

\* ScrewRun.__init__ raises AssertionError: the code or the result of the raw
\* record differs from the label's
Mismatch(json_data, label_data) ==
    \/ json_data.dmc # label_data.data_matrix_code
    \/ json_data.result # label_data.result_value

\* ScrewRun.__init__: the attributes taken from the raw record and from the label
ScrewRun_init(run_id, json_data, label_data) ==
    [id |-> run_id, dmc |-> json_data.dmc, result |-> json_data.result,
     screw_cycle |-> label_data.cycle_number,
     screw_position |-> label_data.workpiece_location,
     class_label |-> label_data.class_label, steps |-> <<>>]

\* the file cannot be loaded: it is not in the json directory, or ScrewRun.__init__ raises
LoadFails(df, json, file_name) ==
    \/ file_name \notin DOMAIN json
    \/ Mismatch(json[file_name], get_run_label_data(df, file_name))

\* a slip: a file that cannot be loaded is skipped
LoadRunsSkipping(names, df, json) ==
    LET ok(file_name) == ~LoadFails(df, json, file_name)
        kept == SelectSeq(names, ok)
    IN [raised |-> "no",
        runs |-> [i \in 1..Len(kept) |->
                     ScrewRun_init(Stem(kept[i]), json[kept[i]], get_run_label_data(df, kept[i]))]]

\* _load_runs: the runs in the order of the file names, or the exception of the
\* first file that cannot be loaded
ScrewDataset_load_runs(names, df, json) ==
    LET bad == {i \in 1..Len(names) : LoadFails(df, json, names[i])} IN
    IF bad = {}
    THEN [raised |-> "no",
          runs |-> [i \in 1..Len(names) |->
                       ScrewRun_init(Stem(names[i]), json[names[i]],
                                     get_run_label_data(df, names[i]))]]
    ELSE LET i == CHOOSE i \in bad : \A j \in bad : i <= j IN
         [raised |-> IF names[i] \notin DOMAIN json THEN "FileNotFoundError" ELSE "ValueError",
          runs |-> <<>>]

\* __init__ calls _filter_labels
FilterLabels ==
    /\ constructing = "_filter_labels"
    /\ IF FilterRaises(screw_positions)
       THEN constructing' = "ValueError" /\ UNCHANGED file_names
       ELSE /\ file_names' = ScrewDataset_filter_labels(labels_df, scenario_classes,
                                                        screw_cycles, screw_positions)
            /\ constructing' = "_load_runs"
    /\ UNCHANGED <<screw_runs, processed_data, handle_duplicates, include_steps, stats,
                   conversion_stats, call, pre_data, invocation, labels_df, json_files,
                   scenario_classes, screw_cycles, screw_positions, lengths, converter_measurements, outside>>

\* __init__ calls _load_runs; an exception leaves __init__ and no dataset exists
LoadRuns ==
    /\ constructing = "_load_runs"
    /\ LET res == ScrewDataset_load_runs(file_names, labels_df, json_files) IN
       /\ constructing' = IF res.raised = "no" THEN "done" ELSE res.raised
       /\ screw_runs' = res.runs
    /\ UNCHANGED <<processed_data, handle_duplicates, include_steps, stats, conversion_stats,
                   call, pre_data, invocation, labels_df, json_files, scenario_classes,
                   screw_cycles, screw_positions, file_names, lengths, converter_measurements, outside>>

----------------------------------------------------------------------------
(* Length Normalizer.  The repository's configuration declares its options;  *)
(* the stage is modelled as its design describes it: every sequence of an    *)
(* aligned channel is padded or cut to the target length.                    *)

\* PipelineOptions.PADDING_POSITIONS and PipelineOptions.CUTOFF_POSITIONS
PADDING_POSITIONS == {"pre", "post"}
CUTOFF_POSITIONS == {"pre", "post"}

\* the target lengths and the padding values a configuration may hold
TargetLengths == 0..MaxPoints
PaddingValues == {Num(0), Num(9)}

\* n copies of the padding value
Padding(n, value) == [i \in 1..n |-> value]

\* a slip: a sequence longer than the target is not cut
NormalizeWithoutCutoff(series, target, value, padding, cutoff) ==
    IF Len(series) < target
    THEN IF padding = "pre" THEN Padding(target - Len(series), value) \o series
         ELSE series \o Padding(target - Len(series), value)
    ELSE series

\* a slip: the padding is always put after the values
NormalizePaddingAfter(series, target, value, padding, cutoff) ==
    IF Len(series) < target THEN series \o Padding(target - Len(series), value)
    ELSE IF Len(series) > target
    THEN IF cutoff = "pre" THEN SubSeq(series, Len(series) - target + 1, Len(series))
         ELSE SubSeq(series, 1, target)
    ELSE series

\* a slip: the head is always the part that is kept
NormalizeKeepingHead(series, target, value, padding, cutoff) ==
    IF Len(series) < target
    THEN IF padding = "pre" THEN Padding(target - Len(series), value) \o series
         ELSE series \o Padding(target - Len(series), value)
    ELSE SubSeq(series, 1, target)

\* one sequence: padded by the deficit before ("pre") or after ("post") its
\* values, cut by the excess at the front ("pre") or at the back ("post"), or
\* passed through
NormalizeSequence(series, target, value, padding, cutoff) ==
    IF Len(series) < target
    THEN IF padding = "pre" THEN Padding(target - Len(series), value) \o series
         ELSE series \o Padding(target - Len(series), value)
    ELSE IF Len(series) > target
    THEN IF cutoff = "pre" THEN SubSeq(series, Len(series) - target + 1, Len(series))
         ELSE SubSeq(series, 1, target)
    ELSE series

\* the stage: every sequence of every aligned channel is normalized; the class
\* labels, one per run, are kept
LengthNormalizer_transform(data, target, value, padding, cutoff) ==
    [key \in DOMAIN data |->
        IF key = CLASS THEN data[key]
        ELSE [r \in 1..Len(data[key]) |->
                 NormalizeSequence(data[key][r], target, value, padding, cutoff)]]

\* the stage runs on the unpacked channels
LengthNormalize ==
    /\ call.op = "unpack"
    /\ ~call.raised
    /\ pre_data' = processed_data
    /\ processed_data' = LengthNormalizer_transform(processed_data, target_length,
                                                   padding_value, padding_position,
                                                   cutoff_position)
    /\ call' = [op |-> "normalize", raised |-> FALSE]
    /\ UNCHANGED <<screw_runs, handle_duplicates, include_steps, stats, conversion_stats,
                   invocation, construction, lengths, converter_measurements, outside>>

----------------------------------------------------------------------------
(* PipelineConfig.  The scenario name, the measurements, the phases and the  *)
(* missing-value method are valid; the enumerated options are the arguments. *)

\* PipelineOptions
POSITIONS == {"left", "right", "both"}
DUPLICATE_METHODS == {"first", "last", "mean"}

\* the values a caller may pass for the enumerated options; "None" is Python's None
Arguments ==
    [screw_positions : POSITIONS \cup {"middle"},
     handle_duplicates : DUPLICATE_METHODS \cup {"none", "None"},
     padding_position : PADDING_POSITIONS \cup {"mid"},
     cutoff_position : CUTOFF_POSITIONS \cup {"mid"},
     output_format : OUTPUT_FORMATS \cup {"csv"}]

\* _validate_option raises ValueError: the value is not in the list of options
validate_option_raises(options_list, value) == value \notin options_list

\* __init__: the options are validated in order; the first invalid one raises
PipelineConfig_init(args) ==
    IF \/ validate_option_raises(POSITIONS, args.screw_positions)
       \/ validate_option_raises(DUPLICATE_METHODS, args.handle_duplicates)
       \/ validate_option_raises(PADDING_POSITIONS, args.padding_position)
       \/ validate_option_raises(CUTOFF_POSITIONS, args.cutoff_position)
       \/ validate_option_raises(OUTPUT_FORMATS, args.output_format)
    THEN "ValueError" ELSE "yes"

\* PipelineConfig(...) is called
ConstructConfig ==
    /\ config_made = "no"
    /\ config_made' = PipelineConfig_init(config_args)
    /\ UNCHANGED <<screw_runs, processed_data, handle_duplicates, include_steps, stats,
                   conversion_stats, call, pre_data, invocation, construction, lengths,
                   converter_measurements, config_args, loader, labelling>>

----------------------------------------------------------------------------
(* DataLoader.get_data.  A file is known by the kind of its content: "good"  *)
(* has the MD5 checksum of the scenario and passes the ZIP test, "bad_zip"   *)
(* has the checksum and fails the ZIP test, "bad_md5" has another checksum,  *)
(* "partial" is what a broken transfer leaves.                               *)

\* what a complete transfer may write
Contents == {"good", "bad_zip", "bad_md5"}

\* _verify_checksum returns True; otherwise it raises ChecksumError
verify_checksum(file) == file \in {"good", "bad_zip"}

\* _verify_archive returns True; otherwise it raises ExtractionError
verify_archive(file) == file = "good"

\* the state everything but the loader is in
NoDataset ==
    /\ screw_runs = <<>>
    /\ processed_data = <<>>
    /\ handle_duplicates = "first"
    /\ include_steps = TRUE
    /\ stats = ZeroStats
    /\ conversion_stats = [format |-> "list", measurements_included |-> 0,
                           data_points_processed |-> 0]
    /\ call = [op |-> "load", raised |-> FALSE]
    /\ pre_data = <<>>
    /\ pc = "none"
    /\ pipeline = <<>>
    /\ stages = <<>>

\* the variables no step of the loader changes
beside_loader ==
    <<screw_runs, processed_data, handle_duplicates, include_steps, stats, conversion_stats,
      call, pre_data, invocation, construction, lengths, converter_measurements, config_args,
      config_made, force, labelling>>

\* a slip: a failed verification of the second download is retried once more
RetryTwice(force_given, attempt_no) ==
    IF attempt_no >= 3 THEN "ExtractionError"
    ELSE IF ~force_given THEN "_download_file" ELSE "returned"

\* get_data after _verify_archive raised ExtractionError: a failure of the
\* retry leaves get_data; the handler of the first failure downloads again
\* unless force was given, and then goes on to the return statement
after_failed_verification(force_given, attempt_no) ==
    IF attempt_no >= 2 THEN "ExtractionError"
    ELSE IF ~force_given THEN "_download_file" ELSE "returned"

\* _download_file: the existing file is used if force is not set and its
\* checksum is right; a file with a wrong checksum is removed
CheckExisting ==
    /\ loader_pc = "_download_file"
    /\ IF ~(force \/ attempt >= 2) /\ archive_file # "absent"
       THEN IF verify_checksum(archive_file)
            THEN loader_pc' = "_verify_archive" /\ UNCHANGED archive_file
            ELSE loader_pc' = "requests.get" /\ archive_file' = "absent"
       ELSE loader_pc' = "requests.get" /\ UNCHANGED archive_file
    /\ UNCHANGED <<temp_file, attempt, requests, verifications, beside_loader>>

\* _download_file: requests.get and the transfer to the temporary file; a
\* RequestException removes the archive file and leaves as DownloadError
Request ==
    /\ loader_pc = "requests.get"
    /\ requests' = requests + 1
    /\ \/ /\ loader_pc' = "DownloadError"
          /\ archive_file' = "absent"
          /\ temp_file' \in {temp_file, "partial"}
       \/ /\ loader_pc' = "rename"
          /\ temp_file' \in Contents
          /\ UNCHANGED archive_file
    /\ UNCHANGED <<attempt, verifications, beside_loader>>

\* _download_file: the temporary file is moved to the archive path
Rename ==
    /\ loader_pc = "rename"
    /\ archive_file' = temp_file
    /\ temp_file' = "absent"
    /\ loader_pc' = "_verify_checksum"
    /\ UNCHANGED <<attempt, requests, verifications, beside_loader>>

\* _download_file: the checksum of the downloaded file is verified; ChecksumError
\* removes the file and leaves get_data
VerifyChecksum ==
    /\ loader_pc = "_verify_checksum"
    /\ IF verify_checksum(archive_file)
       THEN loader_pc' = "_verify_archive" /\ UNCHANGED archive_file
       ELSE loader_pc' = "ChecksumError" /\ archive_file' = "absent"
    /\ UNCHANGED <<temp_file, attempt, requests, verifications, beside_loader>>

\* get_data: _verify_archive, and the handler of its ExtractionError, which
\* removes the file
VerifyArchive ==
    /\ loader_pc = "_verify_archive"
    /\ verifications' = Append(verifications, [ok |-> verify_archive(archive_file),
                                               requests |-> requests])
    /\ IF verify_archive(archive_file)
       THEN /\ loader_pc' = "returned"
            /\ UNCHANGED <<archive_file, attempt>>
       ELSE /\ loader_pc' = after_failed_verification(force, attempt)
            /\ archive_file' = IF attempt >= 2 THEN archive_file ELSE "absent"
            /\ attempt' = IF after_failed_verification(force, attempt) = "_download_file"
                          THEN attempt + 1 ELSE attempt
    /\ UNCHANGED <<temp_file, requests, beside_loader>>

----------------------------------------------------------------------------
(* generate_labels and position_usage_generator.  A generator is known by    *)
(* the pair it yielded last; a generator that has not run yet has yielded    *)
(* nothing.                                                                  *)

MaxFiles == 5

\* the workpiece ids the files may hold
WorkpieceIds == {"w1", "w2"}

\* the files of the class directories in the order they are read, by workpiece id
FileLists == UNION {[1..n -> WorkpieceIds] : n \in 0..MaxFiles}

\* position_usage_generator(): the generator object before its first next()
NewGenerator == [started |-> FALSE, position |-> 0, usage |-> 0]

\* a slip: the usage count is increased after the left position
NextCountingLeft(gen) ==
    IF ~gen.started THEN [started |-> TRUE, position |-> 0, usage |-> 0]
    ELSE [started |-> TRUE,
          position |-> 1 - gen.position,
          usage |-> IF gen.position = 0 THEN gen.usage + 1 ELSE gen.usage]

\* next(generator): the body runs to its next yield; cycle([0, 1]) gives the
\* positions, and usage is increased after a yield of position 1
position_usage_generator_next(gen) ==
    IF ~gen.started THEN [started |-> TRUE, position |-> 0, usage |-> 0]
    ELSE [started |-> TRUE,
          position |-> 1 - gen.position,
          usage |-> IF gen.position = 1 THEN gen.usage + 1 ELSE gen.usage]

\* generate_labels reads the next file: the generator of its workpiece is made
\* if there is none, its next pair goes into the row of the file
NextLabel ==
    /\ label_files # <<>>
    /\ LET workpiece_id == Head(label_files)
           gen == IF workpiece_id \in DOMAIN workpiece_generators
                  THEN workpiece_generators[workpiece_id] ELSE NewGenerator
           yielded == position_usage_generator_next(gen)
       IN /\ workpiece_generators' =
                [w \in DOMAIN workpiece_generators \cup {workpiece_id} |->
                    IF w = workpiece_id THEN yielded ELSE workpiece_generators[w]]
          /\ label_rows' = Append(label_rows, [workpiece_id |-> workpiece_id,
                                         workpiece_usage |-> yielded.usage,
                                         workpiece_location |-> yielded.position])
    /\ label_files' = Tail(label_files)
    /\ UNCHANGED <<screw_runs, processed_data, handle_duplicates, include_steps, stats,
                   conversion_stats, call, pre_data, invocation, construction, lengths,
                   converter_measurements, config_args, config_made, loader>>

----------------------------------------------------------------------------
(* The dataset of the test fixture basic_screw_dataset.  Time is counted in  *)
(* samples of 0.0012, torque in halves, angle in quarters, gradient in       *)
(* tenths.                                                                   *)

FixtureLengths == <<5, 15, 10, 5>>

\* the first value of each channel in each step: step k starts at the last time of step k - 1
FixtureTimeStart == <<0, 4, 18, 27>>
FixtureTorqueStart == <<2, 7, 22, 32>>
FixtureAngleStart == <<0, 5, 20, 30>>
FixtureGradientStart == <<1, 6, 21, 31>>

MockStep(k) ==
    [time |-> [i \in 1..FixtureLengths[k] |-> Num(FixtureTimeStart[k] + i - 1)],
     torque |-> [i \in 1..FixtureLengths[k] |-> Num(FixtureTorqueStart[k] + i - 1)],
     angle |-> [i \in 1..FixtureLengths[k] |-> Num(FixtureAngleStart[k] + i - 1)],
     gradient |-> [i \in 1..FixtureLengths[k] |-> Num(FixtureGradientStart[k] + i - 1)],
     absent |-> {}]

basic_screw_dataset == <<[steps |-> [k \in 1..Len(FixtureLengths) |-> MockStep(k)], class_label |-> 0]>>

----------------------------------------------------------------------------

\* PipelineConfig.__init__: the defaults of the enumerated options
DefaultArguments ==
    [screw_positions |-> "both", handle_duplicates |-> "first", padding_position |-> "post",
     cutoff_position |-> "post", output_format |-> "numpy"]

\* no PipelineConfig has been asked for
NoConfig ==
    /\ config_args = DefaultArguments
    /\ config_made = "no"

\* generate_labels is not running
NoLabelling ==
    /\ label_files = <<>>
    /\ workpiece_generators = <<>>
    /\ label_rows = <<>>

\* DataLoader.get_data is not running
NoLoader ==
    /\ force = FALSE
    /\ archive_file = "absent"
    /\ temp_file = "absent"
    /\ loader_pc = "idle"
    /\ attempt = 0
    /\ requests = 0
    /\ verifications = <<>>

\* nothing outside the dataset is in use
NothingOutside == NoConfig /\ NoLoader /\ NoLabelling

\* PipelineConfig.__init__: the defaults of the length configuration
DefaultLengths ==
    /\ target_length = 1000
    /\ padding_value = 0
    /\ padding_position = "post"
    /\ cutoff_position = "post"

\* no ScrewDataset is under construction
NoConstruction ==
    /\ labels_df = <<>>
    /\ json_files = <<>>
    /\ scenario_classes = [given |-> FALSE, items |-> {}]
    /\ screw_cycles = [given |-> FALSE, items |-> {}]
    /\ screw_positions = "None"
    /\ file_names = <<>>
    /\ constructing = "done"

Init ==
    /\ \/ screw_runs \in Datasets /\ processed_data = <<>>
       \/ screw_runs = basic_screw_dataset /\ processed_data = [m \in Measured |-> <<>>]
    /\ handle_duplicates \in Methods
    /\ include_steps \in BOOLEAN
    /\ stats = ZeroStats
    /\ conversion_stats = [format |-> "list", measurements_included |-> 0,
                           data_points_processed |-> 0]
    /\ call = [op |-> "load", raised |-> FALSE]
    /\ pre_data = <<>>
    /\ pc = "none"
    /\ pipeline = <<>>
    /\ stages = <<>>
    /\ NoConstruction
    /\ DefaultLengths
    /\ converter_measurements = {}
    /\ NothingOutside

Next == Log \/ Unpack \/ HandleDuplicates \/ Convert

Spec == Init /\ [][Next]_vars

\* get_data is called: no dataset exists yet; the InitialTransformer is built
\* with its default include_steps
PipelineInit ==
    /\ screw_runs = <<>>
    /\ processed_data = <<>>
    /\ handle_duplicates = "first"
    /\ include_steps = TRUE
    /\ stats = ZeroStats
    /\ conversion_stats = [format |-> "list", measurements_included |-> 0,
                           data_points_processed |-> 0]
    /\ call = [op |-> "load", raised |-> FALSE]
    /\ pre_data = <<>>
    /\ pc = "load_data"
    /\ pipeline = <<>>
    /\ stages = <<>>
    /\ NoConstruction
    /\ DefaultLengths
    /\ converter_measurements = {}
    /\ NothingOutside

PipelineNext ==
    \/ LoadData \/ FromConfig \/ FitTransform \/ ProcessDataReturns \/ ValidateProcessed
    \/ ConvertData \/ Return \/ Raise

PipelineSpec == PipelineInit /\ [][PipelineNext]_vars

\* ScrewDataset(data_path, scenario_classes, screw_cycles, screw_positions) is
\* called on a directory that holds labels.csv and the json directory
ConstructionInit ==
    /\ screw_runs = <<>>
    /\ processed_data = <<>>
    /\ handle_duplicates = "first"
    /\ include_steps = TRUE
    /\ stats = ZeroStats
    /\ conversion_stats = [format |-> "list", measurements_included |-> 0,
                           data_points_processed |-> 0]
    /\ call = [op |-> "load", raised |-> FALSE]
    /\ pre_data = <<>>
    /\ pc = "none"
    /\ pipeline = <<>>
    /\ stages = <<>>
    /\ labels_df \in LabelTables
    /\ json_files \in JsonDirectories(labels_df)
    /\ scenario_classes \in ClassFilters
    /\ screw_cycles \in CycleFilters
    /\ screw_positions \in PositionFilters
    /\ file_names = <<>>
    /\ constructing = "_filter_labels"
    /\ DefaultLengths
    /\ converter_measurements = {}
    /\ NothingOutside

\* PipelineConfig is about to be called with some arguments; a dataset whose
\* steps are unpacked waits for the conversion stage
ConfigInit ==
    /\ screw_runs = basic_screw_dataset
    /\ include_steps = TRUE
    /\ processed_data = UnpackStepsTransformer_transform(screw_runs, include_steps)
    /\ handle_duplicates = "first"
    /\ stats = ZeroStats
    /\ conversion_stats = [format |-> "list", measurements_included |-> 0,
                           data_points_processed |-> 0]
    /\ call = [op |-> "unpack", raised |-> FALSE]
    /\ pre_data = <<>>
    /\ pc = "none"
    /\ pipeline = <<>>
    /\ stages = <<>>
    /\ NoConstruction
    /\ DefaultLengths
    /\ converter_measurements = {}
    /\ config_args \in Arguments
    /\ config_made = "no"
    /\ NoLoader
    /\ NoLabelling

ConfigNext == ConstructConfig \/ ConvertConfigured

ConfigSpec == ConfigInit /\ [][ConfigNext]_vars

\* get_data(force) is called; the cache may hold files of an earlier call
LoaderInit ==
    /\ NoDataset
    /\ NoConstruction
    /\ DefaultLengths
    /\ converter_measurements = {}
    /\ NoConfig
    /\ force \in BOOLEAN
    /\ archive_file \in Contents \cup {"absent", "partial"}
    /\ temp_file \in {"absent", "partial"}
    /\ loader_pc = "_download_file"
    /\ attempt = 1
    /\ requests = 0
    /\ verifications = <<>>
    /\ NoLabelling

LabelInit ==
    /\ NoDataset
    /\ NoConstruction
    /\ DefaultLengths
    /\ converter_measurements = {}
    /\ NoConfig
    /\ NoLoader
    /\ label_files \in FileLists
    /\ workpiece_generators = <<>>
    /\ label_rows = <<>>

LabelNext == NextLabel

LabelSpec == LabelInit /\ [][LabelNext]_vars

LoaderNext == CheckExisting \/ Request \/ Rename \/ VerifyChecksum \/ VerifyArchive

LoaderSpec == LoaderInit /\ [][LoaderNext]_vars

\* the class labels of the runs as a channel of processed_data
WithClassValues(data, runs) ==
    [key \in DOMAIN data \cup {CLASS} |->
        IF key = CLASS THEN [r \in 1..Len(runs) |-> runs[r].class_label] ELSE data[key]]

\* the steps of a dataset have been unpacked; the caller may have put the class
\* labels of the runs into processed_data
ConversionInit ==
    /\ screw_runs \in {ds \in Datasets : ~UnpackRaises(ds)}
    /\ include_steps \in BOOLEAN
    /\ processed_data \in
          {UnpackStepsTransformer_transform(screw_runs, include_steps),
           WithClassValues(UnpackStepsTransformer_transform(screw_runs, include_steps),
                           screw_runs)}
    /\ handle_duplicates = "first"
    /\ stats = ZeroStats
    /\ conversion_stats = [format |-> "list", measurements_included |-> 0,
                           data_points_processed |-> 0]
    /\ call = [op |-> "unpack", raised |-> FALSE]
    /\ pre_data = <<>>
    /\ pc = "none"
    /\ pipeline = <<>>
    /\ stages = <<>>
    /\ NoConstruction
    /\ DefaultLengths
    /\ converter_measurements = {}
    /\ NothingOutside

ConversionNext == HandleDuplicates \/ Convert \/ ConvertAgain

ConversionSpec == ConversionInit /\ [][ConversionNext]_vars

\* a dataset is loaded and a length configuration is chosen
NormalizerInit ==
    /\ screw_runs \in Datasets
    /\ processed_data = <<>>
    /\ handle_duplicates = "first"
    /\ include_steps \in BOOLEAN
    /\ stats = ZeroStats
    /\ conversion_stats = [format |-> "list", measurements_included |-> 0,
                           data_points_processed |-> 0]
    /\ call = [op |-> "load", raised |-> FALSE]
    /\ pre_data = <<>>
    /\ pc = "none"
    /\ pipeline = <<>>
    /\ stages = <<>>
    /\ NoConstruction
    /\ target_length \in TargetLengths
    /\ padding_value \in PaddingValues
    /\ padding_position \in PADDING_POSITIONS
    /\ cutoff_position \in CUTOFF_POSITIONS
    /\ converter_measurements = {}
    /\ NothingOutside

NormalizerNext == Unpack \/ LengthNormalize

NormalizerSpec == NormalizerInit /\ [][NormalizerNext]_vars

ConstructionNext == FilterLabels \/ LoadRuns

ConstructionSpec == ConstructionInit /\ [][ConstructionNext]_vars

----------------------------------------------------------------------------
(* Vocabulary of the properties *)

\* the last call was HandleDuplicatesTransformer.transform and it returned
Deduped == call.op = "dedupe" /\ ~call.raised

\* the last call was UnpackStepsTransformer.transform and it returned
Unpacked == call.op = "unpack" /\ ~call.raised

\* the per-point channels a processed_data holds
Aligned(data) == (Measured \cup {STEP}) \cap DOMAIN data

\* the indices of series whose value is t
Occurrences(series, t) == {i \in 1..Len(series) : series[i] = t}

Least(S) == CHOOSE x \in S : \A y \in S : x <= y
Greatest(S) == CHOOSE x \in S : \A y \in S : y <= x

RECURSIVE SumOver(_, _)
SumOver(series, S) ==
    IF S = {} THEN 0 ELSE LET i == Least(S) IN series[i] + SumOver(series, S \ {i})

StrictlyIncreasing(series) == \A i \in 1..(Len(series) - 1) : series[i] < series[i + 1]
NonDecreasing(series) == \A i \in 1..(Len(series) - 1) : series[i] <= series[i + 1]

\* every time value of the input series occurs exactly once in the output series
OnePointPerTime(tin, tout) ==
    /\ Range(tout) = Range(tin)
    /\ \A t \in Range(tin) : Cardinality(Occurrences(tout, t)) = 1

\* the number of points of run r that share their time value with an earlier point
Repeats(data, r) == Len(data[TIME][r]) - Cardinality(Range(data[TIME][r]))

----------------------------------------------------------------------------
(* C1: with "first" (resp. "last"), every distinct time value of a run's     *)
(* input is held by exactly one output point, whose torque, angle, gradient  *)
(* and step are those of the lowest (resp. highest) input index with that    *)
(* time; the kept points stay in input order.                                *)

----------------------------------------------------------------------------
(* C2: with "mean", every distinct time value of a run's input is held by    *)
(* exactly one output point, with the time unchanged, and each of torque,    *)
(* angle, gradient and step is the arithmetic mean of that channel over the  *)
(* input points with that time.                                              *)

----------------------------------------------------------------------------
(* C3: for the test fixture, unpacking gives every channel length 35, and    *)
(* "first" duplicate removal then gives length 32 with total_series = 1,     *)
(* total_points = 35, total_removed = 3, total_true_duplicates = 3 and       *)
(* total_value_differences = 0.                                              *)

FixtureFirstPass ==
    /\ screw_runs = basic_screw_dataset
    /\ Deduped
    /\ handle_duplicates = "first"
    /\ pre_data = UnpackStepsTransformer_transform(screw_runs, TRUE)

C3_FixtureStatistics ==
    FixtureFirstPass =>
        /\ \A f \in DOMAIN pre_data : Len(pre_data[f][1]) = 35
        /\ \A f \in DOMAIN processed_data : Len(processed_data[f][1]) = 32
        /\ stats = [total_series |-> 1, total_points |-> 35, total_removed |-> 3,
                    total_true_duplicates |-> 3, total_value_differences |-> 0]

----------------------------------------------------------------------------
(* C4: a second application of "first" (or "last") to the output of its      *)
(* first application changes no channel sequence of any run and reports      *)
(* total_removed = 0.                                                        *)

C4_SecondPassChangesNothing ==
    [][(Deduped /\ handle_duplicates \in {"first", "last"} /\ call'.op = "dedupe") =>
          /\ ~call'.raised
          /\ processed_data' = processed_data
          /\ stats'.total_removed = 0]_vars

\* the second application has run on a dataset whose first application removed points
C4_Witness ==
    /\ Deduped
    /\ handle_duplicates \in {"first", "last"}
    /\ pre_data = processed_data
    /\ stats.total_removed = 0
    /\ Len(processed_data[TIME]) = Len(screw_runs)
    /\ \E r \in 1..Len(screw_runs) : RunLen(screw_runs[r]) > Len(processed_data[TIME][r])

----------------------------------------------------------------------------
(* C5: for every strategy and every run whose time is non-decreasing within  *)
(* each step, the time sequence the duplicate resolver outputs is strictly   *)
(* increasing.                                                               *)

----------------------------------------------------------------------------
(* C6: after a successful transform, total_true_duplicates is the number of  *)
(* removed points in groups (points of one run sharing a time value) whose   *)
(* readings are identical over the whole group, and total_value_differences  *)
(* the number of removed points in groups with a differing reading.          *)

\* the groups of two or more points of run r
Groups(data, r) ==
    {g \in {Occurrences(data[TIME][r], t) : t \in Range(data[TIME][r])} : Cardinality(g) > 1}

Uniform(data, r, g) ==
    \A i, j \in g : \A f \in {TORQUE, ANGLE, GRADIENT} : data[f][r][i] = data[f][r][j]

RECURSIVE RemovedIn(_)
RemovedIn(gs) ==
    IF gs = {} THEN 0
    ELSE LET g == CHOOSE x \in gs : TRUE IN (Cardinality(g) - 1) + RemovedIn(gs \ {g})

\* F(1) + ... + F(n)
SumRuns(n, F(_)) == SumSeq([r \in 1..n |-> F(r)])

C6_GroupClassification ==
    Deduped =>
        LET true(r) == RemovedIn({g \in Groups(pre_data, r) : Uniform(pre_data, r, g)})
            diff(r) == RemovedIn({g \in Groups(pre_data, r) : ~Uniform(pre_data, r, g)})
        IN /\ stats.total_true_duplicates = SumRuns(Len(pre_data[TIME]), true)
           /\ stats.total_value_differences = SumRuns(Len(pre_data[TIME]), diff)

----------------------------------------------------------------------------
(* C7: if a run's time, torque, angle, gradient and step sequences differ in *)
(* length, or hold a NaN or infinite value, transform fails with             *)
(* DuplicateProcessingError, and the removed, true-duplicate and             *)
(* value-difference counts hold nothing of the failing run.                  *)

Malformed(data, r) ==
    \/ \E f \in Aligned(data) : Len(data[f][r]) # Len(data[TIME][r])
    \/ \E f \in Aligned(data) : \E i \in 1..Len(data[f][r]) : data[f][r][i] = NonFinite

C7_MalformedRunRaisesUncounted ==
    (call.op = "dedupe" /\ Measured \cup {STEP} \subseteq DOMAIN pre_data
        /\ \E r \in 1..Len(pre_data[TIME]) : Malformed(pre_data, r)) =>
            LET k == Least({r \in 1..Len(pre_data[TIME]) : Malformed(pre_data, r)})
                before(r) == Repeats(pre_data, r)
            IN /\ call.raised
               /\ stats.total_removed = SumRuns(k - 1, before)
               /\ stats.total_true_duplicates + stats.total_value_differences
                    = SumRuns(k - 1, before)

\* the second run is malformed and repeats a time value; the first run's removed point is counted
C7_Witness ==
    /\ call.op = "dedupe"
    /\ call.raised
    /\ Measured \cup {STEP} \subseteq DOMAIN pre_data
    /\ Len(pre_data[TIME]) >= 2
    /\ ~Malformed(pre_data, 1)
    /\ Malformed(pre_data, 2)
    /\ Repeats(pre_data, 2) > 0
    /\ stats.total_removed > 0

----------------------------------------------------------------------------
(* C8: after unpacking, each of time, torque, angle, gradient of run r is    *)
(* the concatenation of the run's steps' values in step order, and the step  *)
(* channel holds step index i once per point of step i, in the same order.   *)

\* the number of values of measurement m in the first n steps of a run
ValuesBefore(run, m, n) == SumSeq([i \in 1..n |-> Len(get_values(run.steps[i], m))])

----------------------------------------------------------------------------
(* C9: after unpacking and after every later stage, processed_data holds a   *)
(* class-label channel with exactly one label per run, in run order.         *)

C9_ClassLabelsPerRun ==
    (call.op # "load") =>
        /\ CLASS \in DOMAIN processed_data
        /\ processed_data[CLASS] = [r \in 1..Len(screw_runs) |-> screw_runs[r].class_label]

----------------------------------------------------------------------------
(* C10: after unpacking and after duplicate resolution, the time, torque,    *)
(* angle, gradient and step sequences of every run have the same length.     *)

C10_ChannelsAligned ==
    (Unpacked \/ Deduped) =>
        \A r \in 1..Len(processed_data[TIME]) :
            \A f \in Aligned(processed_data) :
                Len(processed_data[f][r]) = Len(processed_data[TIME][r])

----------------------------------------------------------------------------
(* C11: after each stage every per-run channel of processed_data (time,      *)
(* torque, angle, gradient, step) holds exactly len(dataset) sequences, the  *)
(* i-th one belonging to the i-th run; a run with zero steps contributes one *)
(* empty sequence.                                                           *)

\* every per-run channel of data holds one sequence for each run of the dataset
OnePerRun(data) == \A f \in Aligned(data) : Len(data[f]) = Len(screw_runs)

\* the time values recorded by the steps of a run
TimesOfRun(run) == UNION {Range(run.steps[i].time) : i \in 1..Len(run.steps)}

----------------------------------------------------------------------------
(* C12: if the transform of a stage (unpacking, duplicate resolution, format *)
(* conversion) raises, processed_data is exactly what it was before the      *)
(* stage started.                                                            *)

C12_FailedStageLeavesData == call.raised => processed_data = pre_data

----------------------------------------------------------------------------
(* C13: in one pipeline invocation each stage runs at most once and only in  *)
(* the order Loaded, Unpacked, DuplicatesResolved, Resampled,                *)
(* LengthNormalized, Converted; no stage runs after a later one, none after  *)
(* Converted, and Converted has run in every invocation that returned.       *)

StageOrder ==
    <<"Loaded", "Unpacked", "DuplicatesResolved", "Resampled", "LengthNormalized", "Converted">>

Rank(stage) == CHOOSE k \in 1..Len(StageOrder) : StageOrder[k] = stage

----------------------------------------------------------------------------
(* C14: ScrewDataset construction loads a run for exactly the rows of the    *)
(* label table whose class is in the class set given, whose cycle is in the  *)
(* cycle set given and whose position matches the position given (left = 0,  *)
(* right = 1, "both" = any), a filter that is not given imposing no          *)
(* restriction; the runs are in the order of the label table.                *)

\* the row passes the filters
Selected(row) ==
    /\ scenario_classes.given => row.class_label \in scenario_classes.items
    /\ screw_cycles.given => row.cycle_number \in screw_cycles.items
    /\ screw_positions = "left" => row.workpiece_location = 0
    /\ screw_positions = "right" => row.workpiece_location = 1

C14_LoadsExactlySelectedRows ==
    constructing = "done" =>
        LET sel == SelectSeq(labels_df, Selected) IN
        /\ Len(screw_runs) = Len(sel)
        /\ \A i \in 1..Len(sel) :
              /\ screw_runs[i].id = Stem(sel[i].file_name)
              /\ screw_runs[i].class_label = sel[i].class_label
              /\ screw_runs[i].screw_cycle = sel[i].cycle_number
              /\ screw_runs[i].screw_position = sel[i].workpiece_location

----------------------------------------------------------------------------
(* C15: if a file that passes the filter has no raw record in the json       *)
(* directory, or its raw record's code or result differs from the label      *)
(* table's, construction raises and yields no dataset.                       *)

\* a file name chosen by the filter cannot be loaded
Offending(file_name) ==
    \/ file_name \notin DOMAIN json_files
    \/ \E i \in DOMAIN labels_df :
          /\ labels_df[i].file_name = file_name
          /\ \/ json_files[file_name].dmc # labels_df[i].data_matrix_code
             \/ json_files[file_name].result # labels_df[i].result_value

C15_OffendingFileFailsConstruction ==
    (constructing \notin {"_filter_labels", "_load_runs"}
        /\ \E i \in 1..Len(file_names) : Offending(file_names[i]))
    => (constructing \in {"FileNotFoundError", "ValueError"} /\ screw_runs = <<>>)

C15_Witness ==
    /\ Len(file_names) = 2
    /\ ~Offending(file_names[1])
    /\ Offending(file_names[2])
    /\ constructing \in {"FileNotFoundError", "ValueError"}

----------------------------------------------------------------------------
(* C16: no stage (logging, unpacking, duplicate resolution, conversion)      *)
(* changes screw_runs, a run's steps or metadata, or a step's values: of the *)
(* fields of the dataset only processed_data differs from its state after    *)
(* loading.                                                                  *)

C16_StagesLeaveRunsAlone ==
    [][/\ screw_runs' = screw_runs
       /\ <<labels_df, file_names, scenario_classes, screw_cycles, screw_positions>>' =
             <<labels_df, file_names, scenario_classes, screw_cycles, screw_positions>>]_vars

\* logging, unpacking, duplicate resolution and conversion have run on two runs
C16_Witness ==
    /\ call.op = "convert" /\ ~call.raised
    /\ stats.total_removed > 0
    /\ Len(screw_runs) = 2
    /\ conversion_stats.format = "numpy"

----------------------------------------------------------------------------
(* Vocabulary of the length claims *)

\* the length stage was the last stage to run
Normalized == call.op = "normalize" /\ ~call.raised

\* the sequences of the aligned channels the length stage was given, as <<channel, run>>
Sequences == {<<f, r>> \in Aligned(pre_data) \X (1..Len(screw_runs)) : r <= Len(pre_data[f])}

----------------------------------------------------------------------------
(* C17: after the Length Normalizer the sequence of every run in every       *)
(* aligned channel (time, torque, angle, gradient, step) has exactly the     *)
(* target length, whatever its length before and whatever the padding and    *)
(* cutoff positions.                                                         *)

C17_EveryLengthIsTarget ==
    Normalized =>
        \A f \in Aligned(processed_data) : \A r \in 1..Len(processed_data[f]) :
            Len(processed_data[f][r]) = target_length

\* one run was shorter and one longer than the target
C17_Witness ==
    /\ Normalized
    /\ TIME \in DOMAIN pre_data
    /\ \E r1, r2 \in 1..Len(pre_data[TIME]) :
          Len(pre_data[TIME][r1]) < target_length /\ target_length < Len(pre_data[TIME][r2])

----------------------------------------------------------------------------
(* C18: a sequence of length L shorter than the target T gets exactly T - L  *)
(* copies of the padding value: after the L original values with padding     *)
(* position "post", before them with "pre"; the cutoff position has no       *)
(* effect.                                                                   *)

C18_PaddingByTheDeficit ==
    Normalized =>
        \A s \in Sequences :
            LET in == pre_data[s[1]][s[2]]
                out == processed_data[s[1]][s[2]]
                L == Len(in)
                T == target_length
            IN L < T =>
                 /\ Len(out) = T
                 /\ padding_position = "post" =>
                       /\ SubSeq(out, 1, L) = in
                       /\ \A i \in (L + 1)..T : out[i] = padding_value
                 /\ padding_position = "pre" =>
                       /\ \A i \in 1..(T - L) : out[i] = padding_value
                       /\ SubSeq(out, T - L + 1, T) = in

\* a sequence that holds a value other than the padding value was padded in front
C18_Witness ==
    /\ Normalized
    /\ padding_position = "pre"
    /\ cutoff_position = "post"
    /\ \E s \in Sequences :
          /\ 0 < Len(pre_data[s[1]][s[2]])
          /\ Len(pre_data[s[1]][s[2]]) < target_length
          /\ pre_data[s[1]][s[2]][1] # padding_value

----------------------------------------------------------------------------
(* C19: a sequence of length L longer than the target T is cut to its first  *)
(* T values with cutoff position "post" and to its last T values with "pre", *)
(* whatever the padding position and value; a sequence of length T is        *)
(* unchanged.                                                                *)

C19_CutoffByTheExcess ==
    Normalized =>
        \A s \in Sequences :
            LET in == pre_data[s[1]][s[2]]
                out == processed_data[s[1]][s[2]]
                L == Len(in)
                T == target_length
            IN /\ (L > T /\ cutoff_position = "post") => out = SubSeq(in, 1, T)
               /\ (L > T /\ cutoff_position = "pre") => out = SubSeq(in, L - T + 1, L)
               /\ L = T => out = in

\* a sequence whose tail differs from its head was cut at the front
C19_Witness ==
    /\ Normalized
    /\ cutoff_position = "pre"
    /\ padding_position = "post"
    /\ \E s \in Sequences :
          LET in == pre_data[s[1]][s[2]] IN
          /\ 0 < target_length
          /\ target_length < Len(in)
          /\ SubSeq(in, 1, target_length) # SubSeq(in, Len(in) - target_length + 1, Len(in))

----------------------------------------------------------------------------
(* C20: conversion to "dataframe" yields one row per point of the converted  *)
(* channels, so the number of rows is the sum of the runs' sequence lengths; *)
(* every row made from the i-th run carries the series index of that run     *)
(* (counted from 0) and, when processed_data holds class labels, the run's   *)
(* class label.                                                              *)

\* the channels that were converted
Kept ==
    IF converter_measurements = {} THEN SeriesKeys(pre_data)
    ELSE converter_measurements \cap SeriesKeys(pre_data)

\* the rows that carry the series index of the r-th run, in row order
RowsOf(rows, r) == SelectSeq(rows, LAMBDA row : row["series"] = r - 1)

C20_OneRowPerPoint ==
    (call.op = "convert" /\ ~call.raised /\ conversion_stats.format = "dataframe") =>
        LET rows == processed_data.rows IN
        /\ \A j \in 1..Len(rows) : rows[j]["series"] \in 0..(Len(screw_runs) - 1)
        /\ \A c \in Kept :
              /\ Len(rows) = SumSeq([r \in 1..Len(pre_data[c]) |-> Len(pre_data[c][r])])
              /\ \A r \in 1..Len(pre_data[c]) :
                    LET of_run == RowsOf(rows, r) IN
                    /\ Len(of_run) = Len(pre_data[c][r])
                    /\ \A j \in 1..Len(of_run) : of_run[j][c] = pre_data[c][r][j]
        /\ CLASS \in DOMAIN pre_data =>
              \A j \in 1..Len(rows) :
                  rows[j]["class"] = screw_runs[rows[j]["series"] + 1].class_label

\* two runs of different classes, each with points, were converted with their labels
C20_Witness ==
    /\ call.op = "convert" /\ ~call.raised /\ conversion_stats.format = "dataframe"
    /\ CLASS \in DOMAIN pre_data
    /\ Len(screw_runs) = 2
    /\ Len(processed_data.rows) >= 2
    /\ \E i, j \in 1..Len(processed_data.rows) :
          /\ processed_data.rows[i]["series"] = 0
          /\ processed_data.rows[j]["series"] = 1
          /\ processed_data.rows[i]["class"] # processed_data.rows[j]["class"]

----------------------------------------------------------------------------
(* C21: given otherwise valid arguments, PipelineConfig construction         *)
(* succeeds if and only if the position is left, right or both, the          *)
(* duplicate strategy first, last, mean or none, the padding and the cutoff  *)
(* position pre or post, and the output format one of the listed formats;    *)
(* every other value raises ValueError inside the constructor.               *)

\* the values the options may hold
Listed ==
    /\ config_args.screw_positions \in {"left", "right", "both"}
    /\ config_args.handle_duplicates \in {"first", "last", "mean", "none", "None"}
    /\ config_args.padding_position \in {"pre", "post"}
    /\ config_args.cutoff_position \in {"pre", "post"}
    /\ config_args.output_format \in {"numpy", "dataframe", "tensor", "list"}

C21_ConstructionIffListed ==
    config_made # "no" =>
        /\ config_made = "yes" <=> Listed
        /\ config_made = "ValueError" <=> ~Listed

----------------------------------------------------------------------------
(* C22: the duplicate resolver and the format converter start every          *)
(* transform call from zeroed statistics: after any sequence of calls on one *)
(* component its statistics describe the last call only.                     *)

\* the number of points of the time channel the last call was given
PointsGiven ==
    IF TIME \in DOMAIN pre_data
    THEN SumSeq([r \in 1..Len(pre_data[TIME]) |-> Len(pre_data[TIME][r])])
    ELSE 0

C22_StatisticsOfLastCallOnly ==
    /\ Deduped =>
          /\ stats.total_series = Len(pre_data[TIME])
          /\ stats.total_points = PointsGiven
    /\ (call.op = "convert" /\ ~call.raised) =>
          /\ conversion_stats.measurements_included =
                Cardinality(IF converter_measurements = {} THEN DOMAIN pre_data
                            ELSE (converter_measurements \cup {CLASS}) \cap DOMAIN pre_data)
          /\ conversion_stats.data_points_processed =
                IF converter_measurements = {} THEN PointsGiven ELSE 0

----------------------------------------------------------------------------
(* C23: when unpacking and duplicate resolution succeed, the output          *)
(* sequences of run i are those the stage produces for a dataset that holds  *)
(* run i alone: they do not depend on the other runs or on their number.     *)

\* processed_data of the dataset that holds only the i-th run of data
OnlyRun(data, i) == [f \in DOMAIN data |-> <<data[f][i]>>]

C23_RunsAreIndependent ==
    /\ Unpacked =>
          \A i \in 1..Len(screw_runs) : \A f \in DOMAIN processed_data :
              processed_data[f][i] =
                  UnpackStepsTransformer_transform(<<screw_runs[i]>>, include_steps)[f][1]
    /\ Deduped =>
          \A i \in 1..Len(pre_data[TIME]) :
              LET alone == HandleDuplicatesTransformer_transform(handle_duplicates,
                                                                 OnlyRun(pre_data, i))
              IN /\ ~alone.raised
                 /\ \A f \in Aligned(processed_data) : processed_data[f][i] = alone.out[f][1]

\* two runs that differ were unpacked and had duplicates removed
C23_Witness ==
    /\ Deduped
    /\ Len(screw_runs) = 2
    /\ screw_runs[1].steps # screw_runs[2].steps
    /\ stats.total_removed > 0
    /\ processed_data[TORQUE][1] # processed_data[TORQUE][2]

----------------------------------------------------------------------------
(* C24: under every strategy (first, last, mean) the step indicator that the *)
(* duplicate resolver outputs for a time value is the step indicator of the  *)
(* first input point with that time value.                                   *)

C24_StepOfFirstOccurrence ==
    (Deduped /\ STEP \in DOMAIN pre_data) =>
        \A r \in 1..Len(processed_data[TIME]) :
            \A j \in 1..Len(processed_data[TIME][r]) :
                processed_data[STEP][r][j] =
                    pre_data[STEP][r][Least(Occurrences(pre_data[TIME][r],
                                                        processed_data[TIME][r][j]))]

----------------------------------------------------------------------------
(* C25: DataLoader.get_data, with force true or false, either raises or      *)
(* returns a path at which an archive file exists that passed the MD5        *)
(* checksum verification and the ZIP integrity verification; it does not     *)
(* return after a failed archive verification that no successful one         *)
(* followed.                                                                 *)

C25_ReturnsVerifiedArchive ==
    loader_pc = "returned" =>
        /\ archive_file = "good"
        /\ verifications # <<>>
        /\ verifications[Len(verifications)].ok

----------------------------------------------------------------------------
(* C26: with force = False, a failed ZIP verification removes the archive    *)
(* file and is followed by exactly one forced download and, when that        *)
(* download succeeds, one more verification; a second failed verification    *)
(* is raised, not retried; no call makes more than two download requests.    *)

\* get_data has returned or raised
Finished == loader_pc \in {"returned", "DownloadError", "ChecksumError", "ExtractionError"}

----------------------------------------------------------------------------
(* C27: if processed_data has no step channel, HandleDuplicatesTransformer   *)
(* .transform succeeds on runs that have at least one point, and its output  *)
(* has no step channel.                                                      *)

\* the data given to the call has no step channel, and every run has at least one
\* point and channels of finite values and of one length
StepFreeInput ==
    /\ Measured \subseteq DOMAIN pre_data
    /\ STEP \notin DOMAIN pre_data
    /\ Len(pre_data[TIME]) >= 1
    /\ \A f \in Measured : Len(pre_data[f]) = Len(pre_data[TIME])
    /\ \A i \in 1..Len(pre_data[TIME]) :
          /\ Len(pre_data[TIME][i]) >= 1
          /\ \A f \in Measured :
                /\ Len(pre_data[f][i]) = Len(pre_data[TIME][i])
                /\ \A k \in 1..Len(pre_data[f][i]) : IsFinite(pre_data[f][i][k])

C27_SucceedsWithoutStepChannel ==
    (call.op = "dedupe" /\ StepFreeInput) =>
        (~call.raised /\ STEP \notin DOMAIN processed_data)

----------------------------------------------------------------------------
(* C28: after every successful HandleDuplicatesTransformer.transform, under  *)
(* any strategy, total_true_duplicates + total_value_differences =           *)
(* total_removed, total_series is the number of runs, total_points is the    *)
(* sum of the input lengths of the runs, and the output time sequences hold  *)
(* total_points - total_removed points together.                             *)

\* the number of points the time channel of the data holds
TimePoints(data) == SumSeq([i \in 1..Len(data[TIME]) |-> Len(data[TIME][i])])

----------------------------------------------------------------------------
(* C29: every output format PipelineConfig accepts is accepted by            *)
(* DatasetConversionTransformer: with a configuration that passed the        *)
(* validation of PipelineConfig, the conversion stage does not fail on an    *)
(* invalid or unsupported format.                                            *)

C29_AcceptedFormatsConvert ==
    (config_made = "yes" /\ call.op = "convert") =>
        ~(call.raised /\ DatasetConversionTransformer_fit_raises(config_args.output_format))

----------------------------------------------------------------------------
(* C30: position_usage_generator yields, for n = 0, 1, 2, ..., the pair      *)
(* (n mod 2, n div 2): the n-th row of a workpiece holds position n mod 2    *)
(* and usage n div 2, whatever other workpieces come in between.             *)

\* the rows of the workpiece, in order
RowsOfWorkpiece(w) == SelectSeq(label_rows, LAMBDA row : row.workpiece_id = w)

C30_NthPairIsModAndDiv ==
    \A w \in WorkpieceIds :
        \A k \in 1..Len(RowsOfWorkpiece(w)) :
            /\ RowsOfWorkpiece(w)[k].workpiece_location = (k - 1) % 2
            /\ RowsOfWorkpiece(w)[k].workpiece_usage = (k - 1) \div 2

\* one workpiece has four rows, with a row of the other workpiece in between
C30_Witness ==
    /\ Len(RowsOfWorkpiece("w1")) = 4
    /\ Len(label_rows) = 5
    /\ label_rows[3].workpiece_id = "w2"
    /\ label_rows[5] = [workpiece_id |-> "w1", workpiece_usage |-> 1, workpiece_location |-> 1]

====
